---- MODULE Spec2Model ----
(***************************************************************************)
(* Model of BetaGoRobot/go_utils: the two variants of the warm-up          *)
(* generator (cmd/tools/warmup/main.go, called variant "A", and the        *)
(* per-package generator appended to common_utils/map_slice_trans.go,      *)
(* called variant "B"), the map transformation helper                     *)
(* TransMapByValueWithErr, and the name cache of package reflecting.       *)
(*                                                                         *)
(* Go strings are sequences of byte values, so that fmt.Sprintf is         *)
(* concatenation, the sort comparators are the byte-wise lexicographic     *)
(* order, and strings.Split / HasPrefix / TrimSpace are computed.          *)
(***************************************************************************)
EXTENDS Integers, Sequences, FiniteSets, TLC

\* ------------------------------------------------------------------ bounds
\* Number of source files in the scanned tree.
MaxFiles == 2
\* Number of generator runs over the tree.
MaxRuns == 2
\* Length of the raw call sequences deduplicateCalls is applied to on its own.
MaxRaw == 3
\* Number of keys of the maps TransMapByValueWithErr is applied to.
MaxKeys == 2
\* Number of statements in the function body given to the detector.
MaxStmts == 3
\* Number of goroutines calling into package reflecting.
MaxProcs == 2

\* ------------------------------------------------------------- Go strings
Str_dot == <<46>>        \* "."
Str_slash == <<47>>      \* "/"
Str_colon == <<58>>      \* ":"
Str_lparStar == <<40, 42>>  \* "(*"
Str_rparDot == <<41, 46>>   \* ")."
GoExt == <<46, 103, 111>>   \* ".go"
\* main.go:60, the name the walk of variant A skips: "warmup_gen.go"
SkipNameA == <<119, 97, 114, 109, 117, 112, 95, 103, 101, 110, 46, 103, 111>>
\* map_slice_trans.go:281, the name the walk of variant B skips: "warmup.gen.go"
SkipNameB == <<119, 97, 114, 109, 117, 112, 46, 103, 101, 110, 46, 103, 111>>
\* main.go:212 and map_slice_trans.go:433, the name both emitters write: "warmup.gen.go"
OutName == <<119, 97, 114, 109, 117, 112, 46, 103, 101, 110, 46, 103, 111>>
MainPkg == <<109, 97, 105, 110>>   \* "main"
\* "GetCurrentFunc"
ProbeName == <<71, 101, 116, 67, 117, 114, 114, 101, 110, 116, 70, 117, 110, 99>>
\* "github.com/BetaGoRobot/go_utils/reflecting"
ProbePath == <<103, 105, 116, 104, 117, 98, 46, 99, 111, 109, 47, 66, 101, 116, 97, 71, 111, 82, 111, 98, 111, 116, 47, 103, 111, 95, 117, 116, 105, 108, 115, 47, 114, 101, 102, 108, 101, 99, 116, 105, 110, 103>>
ModuleKw == <<109, 111, 100, 117, 108, 101, 32>>   \* "module "

\* a < b in Go's string order (byte-wise lexicographic).
RECURSIVE StrLess(_, _)
StrLess(a, b) ==
    IF Len(b) = 0 THEN FALSE
    ELSE IF Len(a) = 0 THEN TRUE
    ELSE IF Head(a) # Head(b) THEN Head(a) < Head(b)
    ELSE StrLess(Tail(a), Tail(b))

\* strings.Compare / the three-way comparators of the sorts.
StrCompare(a, b) == IF StrLess(a, b) THEN -1 ELSE IF a = b THEN 0 ELSE 1

\* fmt.Sprintf("%d", n) for n >= 0.
RECURSIVE Itoa(_)
Itoa(n) == IF n < 10 THEN <<48 + n>> ELSE Itoa(n \div 10) \o <<48 + (n % 10)>>

\* The last element of strings.Split(s, "/").
RECURSIVE LastSegment(_)
LastSegment(s) ==
    IF \E i \in 1..Len(s) : s[i] = 47
    THEN LastSegment(Tail(s))
    ELSE s

\* strings.HasPrefix(s, p).
HasPrefix(s, p) == Len(s) >= Len(p) /\ SubSeq(s, 1, Len(p)) = p

\* strings.TrimPrefix(s, p).
TrimPrefix(s, p) == IF HasPrefix(s, p) THEN SubSeq(s, Len(p) + 1, Len(s)) ELSE s

IsSpace(c) == c \in {9, 10, 11, 12, 13, 32}

\* strings.TrimSpace(s).
RECURSIVE TrimSpace(_)
TrimSpace(s) ==
    IF Len(s) = 0 THEN s
    ELSE IF IsSpace(Head(s)) THEN TrimSpace(Tail(s))
    ELSE IF IsSpace(s[Len(s)]) THEN TrimSpace(SubSeq(s, 1, Len(s) - 1))
    ELSE s

\* filepath.Ext(name): the suffix beginning at the final dot of the name.
RECURSIVE Ext(_)
Ext(name) ==
    IF Len(name) = 0 THEN <<>>
    ELSE IF \E i \in 2..Len(name) : name[i] = 46 THEN Ext(Tail(name))
    ELSE IF Head(name) = 46 THEN name
    ELSE <<>>

\* All orders in which the keys of a Go map can be visited by range.
Perms(S) ==
    {p \in [1..Cardinality(S) -> S] : \A i, j \in 1..Cardinality(S) : i # j => p[i] # p[j]}

\* The elements of a sequence.
Range(s) == {s[i] : i \in 1..Len(s)}

\* slices.SortFunc on a slice shorter than 12 elements is an insertion sort:
\* an element moves left only past elements it compares strictly less than,
\* so elements that compare equal keep the order they came in.
RECURSIVE InsertSorted(_, _, _)
InsertSorted(s, e, field) ==
    IF Len(s) = 0 THEN <<e>>
    ELSE IF StrCompare(e[field], s[Len(s)][field]) < 0
         THEN InsertSorted(SubSeq(s, 1, Len(s) - 1), e, field) \o <<s[Len(s)]>>
         ELSE s \o <<e>>

\* slices.SortFunc(s, cmp) with cmp comparing the string field `field`.
RECURSIVE SortFunc(_, _)
SortFunc(s, field) ==
    IF Len(s) = 0 THEN <<>>
    ELSE InsertSorted(SortFunc(SubSeq(s, 1, Len(s) - 1), field), s[Len(s)], field)

\* ---------------------------------------------------------- syntax trees
\* Expressions as go/parser builds them:
\*   [kind |-> "Ident", Name, local]     local: the identifier denotes a local
\*                                       object that shadows the import alias
\*                                       (scope information the parser does not
\*                                       give the generator)
\*   [kind |-> "Selector", X, Sel]       X.Sel
\*   [kind |-> "Call", Fun, Args, line]  Fun(Args...), line of the "("
\*   [kind |-> "Paren", X]               (X)
\*   [kind |-> "Star", X]                *X      (receiver types)
\*   [kind |-> "Index", X]               X[K]    (receiver types)
Ident(name) == [kind |-> "Ident", Name |-> name, local |-> FALSE]
LocalIdent(name) == [kind |-> "Ident", Name |-> name, local |-> TRUE]
Selector(x, sel) == [kind |-> "Selector", X |-> x, Sel |-> sel]
Call(fun, args, line) == [kind |-> "Call", Fun |-> fun, Args |-> args, line |-> line]
Paren(x) == [kind |-> "Paren", X |-> x]
Star(x) == [kind |-> "Star", X |-> x]
Index(x) == [kind |-> "Index", X |-> x]

RECURSIVE Concat(_)
Concat(ss) == IF Len(ss) = 0 THEN <<>> ELSE Head(ss) \o Concat(Tail(ss))

\* The call expressions ast.Inspect reaches below node n, in the order it
\* reaches them (a node before its children; the callback always returns true).
RECURSIVE CallExprs(_)
CallExprs(n) ==
    CASE n.kind = "Call" ->
             <<n>> \o CallExprs(n.Fun)
                   \o Concat([i \in 1..Len(n.Args) |-> CallExprs(n.Args[i])])
      [] n.kind \in {"Selector", "Paren", "Star", "Index"} -> CallExprs(n.X)
      [] OTHER -> <<>>

\* ast.Inspect(funcDecl.Body, ...): every call expression of the body.
Inspect(body) == Concat([i \in 1..Len(body) |-> CallExprs(body[i])])

\* The import map a file's import declarations build, in declaration order:
\* a named import under its name, an unnamed one under the last path segment.
RECURSIVE FileImportMap(_)
FileImportMap(imports) ==
    IF Len(imports) = 0 THEN <<>>
    ELSE LET rest == FileImportMap(SubSeq(imports, 1, Len(imports) - 1))
             imp == imports[Len(imports)]
             key == IF imp.Name # <<>> THEN imp.Name ELSE LastSegment(imp.Path)
         IN  [k \in (DOMAIN rest) \cup {key} |-> IF k = key THEN imp.Path ELSE rest[k]]

\* containsGetCurrentFunc(expr, importMap), the same text in both variants.
SelectorIsProbe(e, importMap) ==
    /\ e.kind = "Selector"
    /\ e.X.kind = "Ident"
    /\ e.Sel = ProbeName
    /\ e.X.Name \in DOMAIN importMap
    /\ importMap[e.X.Name] = ProbePath

ContainsGetCurrentFuncNoAlias(expr, importMap) ==
    /\ expr.kind = "Selector"
    /\ expr.X.kind = "Ident"
    /\ expr.Sel = ProbeName
    /\ expr.X.Name = LastSegment(ProbePath)

ContainsGetCurrentFunc(expr, importMap) ==
    CASE expr.kind = "Selector" -> SelectorIsProbe(expr, importMap)
      [] expr.kind = "Call" -> SelectorIsProbe(expr.Fun, importMap)
      [] OTHER -> FALSE

\* The receiver switch of buildFunctionCall, the same text in both variants.
RecvStructName(recvType) ==
    CASE recvType.kind = "Ident" -> recvType.Name
      [] recvType.kind = "Star" /\ recvType.X.kind = "Ident" -> recvType.X.Name
      [] OTHER -> <<>>

RecvIsPointer(recvType) == recvType.kind = "Star" /\ recvType.X.kind = "Ident"

\* A function declaration: [Name, HasRecv, Recv, TypeParams, HasBody, Body].
\* buildFunctionCall of variant A: always package-qualified.
BuildFunctionCallA(pkgName, funcDecl) ==
    IF ~funcDecl.HasRecv
    THEN pkgName \o Str_dot \o funcDecl.Name
    ELSE IF RecvIsPointer(funcDecl.Recv)
         THEN Str_lparStar \o pkgName \o Str_dot \o RecvStructName(funcDecl.Recv)
                  \o Str_rparDot \o funcDecl.Name
         ELSE pkgName \o Str_dot \o RecvStructName(funcDecl.Recv) \o Str_dot \o funcDecl.Name

\* buildFunctionCall of variant B: never package-qualified.
BuildFunctionCallB(currentPkg, funcDecl) ==
    IF ~funcDecl.HasRecv
    THEN funcDecl.Name
    ELSE IF RecvIsPointer(funcDecl.Recv)
         THEN Str_lparStar \o RecvStructName(funcDecl.Recv) \o Str_rparDot \o funcDecl.Name
         ELSE RecvStructName(funcDecl.Recv) \o Str_dot \o funcDecl.Name

BuildFunctionCall(v, pkgName, funcDecl) ==
    IF v = "A" THEN BuildFunctionCallA(pkgName, funcDecl)
    ELSE BuildFunctionCallB(pkgName, funcDecl)

\* A file of the tree: [dir, name, ok, pkg, imports, decls, gen]; dir is the
\* directory relative to the scan root ("." for the root itself), ok says the
\* file parses, gen that the generator wrote it.
RelPath(f) == IF f.dir = Str_dot THEN f.name ELSE f.dir \o Str_slash \o f.name

\* The provenance string fmt.Sprintf("%s:%d", relPath, callPos.Line).
Comment(f, call) == RelPath(f) \o Str_colon \o Itoa(call.line)

\* The raw calls one declaration contributes: one per call expression of its
\* body whose callee matches.
DeclRawCalls(v, f, importMap, funcDecl) ==
    IF ~funcDecl.HasBody \/ (v = "B" /\ funcDecl.TypeParams)
    THEN <<>>
    ELSE LET calls == Inspect(funcDecl.Body)
             hits == SelectSeq(calls, LAMBDA c : ContainsGetCurrentFunc(c.Fun, importMap))
         IN  [i \in 1..Len(hits) |->
                 [Expr |-> BuildFunctionCall(v, f.pkg, funcDecl),
                  Comment |-> Comment(f, hits[i])]]

\* The loop over node.Decls.
FileRawCalls(v, f) ==
    LET importMap == FileImportMap(f.imports)
    IN  Concat([i \in 1..Len(f.decls) |-> DeclRawCalls(v, f, importMap, f.decls[i])])

\* deduplicateCalls: callMap[c.Expr] = append(callMap[c.Expr], c.Comment).
RECURSIVE CallMapOverwrite(_)
CallMapOverwrite(rawCalls) ==
    IF Len(rawCalls) = 0 THEN <<>>
    ELSE LET rest == CallMapOverwrite(SubSeq(rawCalls, 1, Len(rawCalls) - 1))
             c == rawCalls[Len(rawCalls)]
         IN  [e \in (DOMAIN rest) \cup {c.Expr} |->
                 IF e = c.Expr THEN <<c.Comment>> ELSE rest[e]]

RECURSIVE CallMap(_)
CallMap(rawCalls) ==
    IF Len(rawCalls) = 0 THEN <<>>
    ELSE LET rest == CallMap(SubSeq(rawCalls, 1, Len(rawCalls) - 1))
             c == rawCalls[Len(rawCalls)]
         IN  [e \in (DOMAIN rest) \cup {c.Expr} |->
                 IF e = c.Expr
                 THEN (IF e \in DOMAIN rest THEN rest[e] ELSE <<>>) \o <<c.Comment>>
                 ELSE rest[e]]

\* deduplicateCalls, with `order` the order in which range visits callMap.
DeduplicateCalls(rawCalls, order) ==
    [i \in 1..Len(order) |->
        [Expr |-> order[i], Comments |-> CallMap(rawCalls)[order[i]]]]

\* buildImportLines, with `order` the order in which range visits importPaths.
BuildImportLines(importPaths, modulePrefix, order) ==
    [i \in 1..Len(order) |->
        [Alias |-> order[i],
         Path |-> modulePrefix \o Str_slash \o importPaths[order[i]]]]

\* getGoModModuleName on a manifest [readable, lines]: the module name of the
\* first line that begins with "module ", or a fatal exit.
RECURSIVE FirstModuleLine(_)
FirstModuleLine(lines) ==
    IF Len(lines) = 0 THEN [found |-> FALSE, name |-> <<>>]
    ELSE IF HasPrefix(Head(lines), ModuleKw)
         THEN [found |-> TRUE, name |-> TrimSpace(TrimPrefix(Head(lines), ModuleKw))]
         ELSE FirstModuleLine(Tail(lines))

GetGoModModuleNameLenient(m) ==
    [fatal |-> FALSE,
     name |-> IF m.readable THEN FirstModuleLine(m.lines).name ELSE <<>>]

GetGoModModuleName(m) ==
    IF ~m.readable THEN [fatal |-> TRUE, name |-> <<>>]
    ELSE LET r == FirstModuleLine(m.lines)
         IN  [fatal |-> ~r.found, name |-> r.name]

\* ------------------------------------------------------- the scanned tree
Dir_a == <<97>>                \* directory "a"
Dir_b == <<98>>                \* directory "b"
Pkg_u == <<117>>               \* package u
Pkg_v == <<118>>               \* package v
Pkg_u_test == <<117, 95, 116, 101, 115, 116>>   \* package u_test
Pkg_warmup == <<119, 97, 114, 109, 117, 112>>   \* package warmup
Alias_reflecting == <<114, 101, 102, 108, 101, 99, 116, 105, 110, 103>>  \* reflecting
Alias_p == <<112>>             \* p
Alias_q == <<113>>             \* q
Alias_r == <<114>>             \* r
\* "example.com/other/reflecting"
OtherPath == <<101, 120, 97, 109, 112, 108, 101, 46, 99, 111, 109, 47, 111, 116, 104, 101, 114, 47, 114, 101, 102, 108, 101, 99, 116, 105, 110, 103>>
GoFile(c) == <<c>> \o GoExt

Import(name, path) == [Name |-> name, Path |-> path]
NoRecv == Ident(<<>>)
Func(name, body) ==
    [Name |-> name, HasRecv |-> FALSE, Recv |-> NoRecv, TypeParams |-> FALSE,
     HasBody |-> TRUE, Body |-> body]
GenericFunc(name, body) ==
    [Name |-> name, HasRecv |-> FALSE, Recv |-> NoRecv, TypeParams |-> TRUE,
     HasBody |-> TRUE, Body |-> body]
Method(recv, name, body) ==
    [Name |-> name, HasRecv |-> TRUE, Recv |-> recv, TypeParams |-> FALSE,
     HasBody |-> TRUE, Body |-> body]
SourceFile(dir, name, pkg, imports, decls) ==
    [dir |-> dir, name |-> name, ok |-> TRUE, pkg |-> pkg, imports |-> imports,
     decls |-> decls, gen |-> FALSE]
\* alias.GetCurrentFunc() with the "(" on `line`.
ProbeCall(alias, line) == Call(Selector(Ident(alias), ProbeName), <<>>, line)

\* a/x.go:  package u; import ".../reflecting"
\*          func F() { reflecting.GetCurrentFunc() }            (line 5)
File_ax ==
    SourceFile(Dir_a, GoFile(120), Pkg_u, <<Import(<<>>, ProbePath)>>,
               <<Func(<<70>>, <<ProbeCall(Alias_reflecting, 5)>>)>>)
\* a/y.go:  package u; import p ".../reflecting"
\*          func (t *T) M() { p.GetCurrentFunc() }              (line 7)
\*          func (t T) V()  { f(p.GetCurrentFunc()) }           (line 9)
\*          func E()                                             (no body)
File_ay ==
    SourceFile(Dir_a, GoFile(121), Pkg_u, <<Import(Alias_p, ProbePath)>>,
               <<Method(Star(Ident(<<84>>)), <<77>>, <<ProbeCall(Alias_p, 7)>>),
                 Method(Ident(<<84>>), <<86>>,
                        <<Call(Ident(<<102>>), <<ProbeCall(Alias_p, 9)>>, 9)>>),
                 [Func(<<69>>, <<>>) EXCEPT !.HasBody = FALSE]>>)
\* a/z_test.go:  package u_test; import ".../reflecting"
\*          func G() { reflecting.GetCurrentFunc() }            (line 4)
File_az ==
    SourceFile(Dir_a, <<122, 95, 116, 101, 115, 116>> \o GoExt, Pkg_u_test,
               <<Import(<<>>, ProbePath)>>,
               <<Func(<<71>>, <<ProbeCall(Alias_reflecting, 4)>>)>>)
\* b/x.go:  package u (the package name of directory a); import ".../reflecting"
\*          func F() { reflecting.GetCurrentFunc() }            (line 5)
File_bx ==
    SourceFile(Dir_b, GoFile(120), Pkg_u, <<Import(<<>>, ProbePath)>>,
               <<Func(<<70>>, <<ProbeCall(Alias_reflecting, 5)>>)>>)
\* b/g.go:  package v; import ".../reflecting"
\*          func H[K any]() { reflecting.GetCurrentFunc() }     (line 6)
File_bg ==
    SourceFile(Dir_b, GoFile(103), Pkg_v, <<Import(<<>>, ProbePath)>>,
               <<GenericFunc(<<72>>, <<ProbeCall(Alias_reflecting, 6)>>)>>)
\* m.go:  package main; import ".../reflecting"
\*          func main() { reflecting.GetCurrentFunc() }         (line 8)
File_m ==
    SourceFile(Str_dot, GoFile(109), MainPkg, <<Import(<<>>, ProbePath)>>,
               <<Func(MainPkg, <<ProbeCall(Alias_reflecting, 8)>>)>>)
\* a/n.go:  package u; import "example.com/other/reflecting"; import q "example.com/other/reflecting"
\*          func N() { GetCurrentFunc()                          (line 3)
\*                     q.GetCurrentFunc()                        (line 4)
\*                     r.GetCurrentFunc()                        (line 5)
\*                     reflecting.GetCurrentFunc()               (line 6)
\*                     q.Other() }                               (line 7)
File_an ==
    SourceFile(Dir_a, GoFile(110), Pkg_u,
               <<Import(<<>>, OtherPath), Import(Alias_q, OtherPath)>>,
               <<Func(<<78>>, <<Call(Ident(ProbeName), <<>>, 3),
                                ProbeCall(Alias_q, 4),
                                ProbeCall(Alias_r, 5),
                                ProbeCall(Alias_reflecting, 6),
                                Call(Selector(Ident(Alias_q), <<79>>), <<>>, 7)>>)>>)
\* b/s.go:  package v; import ".../reflecting"
\*          func S() { reflecting := local{}; reflecting.GetCurrentFunc() }   (line 3)
\*          where the local variable shadows the import alias
File_bs ==
    SourceFile(Dir_b, GoFile(115), Pkg_v, <<Import(<<>>, ProbePath)>>,
               <<Func(<<83>>, <<Call(Selector(LocalIdent(Alias_reflecting), ProbeName),
                                     <<>>, 3)>>)>>)
\* a/bad.go: does not parse.
File_bad ==
    [SourceFile(Dir_a, <<98, 97, 100>> \o GoExt, Pkg_u, <<>>, <<>>) EXCEPT !.ok = FALSE]
\* a/warmup_gen.go: a hand-written file that carries the name variant A skips:
\*          package u; import ".../reflecting"
\*          func K() { reflecting.GetCurrentFunc() }            (line 2)
File_aw ==
    SourceFile(Dir_a, SkipNameA, Pkg_u, <<Import(<<>>, ProbePath)>>,
               <<Func(<<75>>, <<ProbeCall(Alias_reflecting, 2)>>)>>)
\* b/w.go:  package v; import p ".../reflecting"
\*          func (t T) W() { p.GetCurrentFunc()                  (line 9)
\*                           p.GetCurrentFunc()                  (line 10)
\*                           p.GetCurrentFunc()() }              (line 11)
File_bw ==
    SourceFile(Dir_b, GoFile(119), Pkg_v, <<Import(Alias_p, ProbePath)>>,
               <<Method(Ident(<<84>>), <<87>>,
                        <<ProbeCall(Alias_p, 9), ProbeCall(Alias_p, 10),
                          Call(ProbeCall(Alias_p, 11), <<>>, 11)>>)>>)
Universe ==
    {File_ax, File_ay, File_az, File_bx, File_bg, File_m, File_an, File_bs,
     File_bad, File_aw, File_bw}

Trees == {t \in SUBSET Universe : Cardinality(t) <= MaxFiles}

\* The manifest go.mod at the scan root: [readable, lines].
\* "module example.com/m " and "go 1.24"
Manifest_ok ==
    [readable |-> TRUE,
     lines |-> << <<109, 111, 100, 117, 108, 101, 32, 101, 120, 97, 109, 112, 108, 101, 46, 99, 111, 109, 47, 109, 32>>,
                  <<103, 111, 32, 49, 46, 50, 52>> >>]
\* " module example.com/m" (indented) and "go 1.24": no line begins with "module "
Manifest_nomodule ==
    [readable |-> TRUE,
     lines |-> << <<32, 109, 111, 100, 117, 108, 101, 32, 101, 120, 97, 109, 112, 108, 101, 46, 99, 111, 109, 47, 109>>,
                  <<103, 111, 32, 49, 46, 50, 52>> >>]
Manifest_unreadable == [readable |-> FALSE, lines |-> <<>>]
Manifests == {Manifest_ok, Manifest_nomodule, Manifest_unreadable}

\* ------------------------------------------------------------ the generator
VARIABLES
    variant,       \* "A": cmd/tools/warmup/main.go, "B": the per-package generator
    tplPkg,        \* the package the template of variant A declares
    manifest,      \* go.mod at the scan root
    tree,          \* the files below the scan root
    run,           \* number of runs started
    pc,            \* "idle", "walk", "emit", "done", "fatal"
    queue,         \* the files filepath.Walk has still to visit
    parsed,        \* the files handed to parser.ParseFile in this run
    rawCalls,      \* variant A: scanGoFiles' rawCalls
    importPaths,   \* variant A: scanGoFiles' importPaths
    pkgMap,        \* variant B: scanPackages' pkgMap, keyed by directory
    pending,       \* variant B: the packages generate's loop has still to visit
    out,           \* directory -> template data written in this run
    formatted,     \* directories whose output goimports was run on in this run
    input,         \* the scan input at the start of this run
    last           \* the previous run: [done, input, out]

genVars ==
    <<variant, tplPkg, manifest, tree, run, pc, queue, parsed, rawCalls,
      importPaths, pkgMap, pending, out, formatted, input, last>>

\* The state of one call of a pure function applied on its own:
\*   deduplicateCalls
VARIABLES dRaw, dResult, dDone
\*   buildFunctionCall, for a pointer-receiver method, a value-receiver method
\*   and a free function of one package
VARIABLES bVariant, bPkg, bPtrDecl, bValDecl, bFreeDecl, bRefs, bDone
\*   TransMapByValueWithErr: the map m, the transform f, the entries range has
\*   still to visit, the map res under construction, and what was returned
VARIABLES tM, tF, tTodo, tRes, tRet
\*   analyzeFile's loop over the declarations of one file: the variant, the
\*   file, and the raw call sites appended to results
VARIABLES aVariant, aFile, results, aDone
\*   package reflecting: the process-wide pcCache and, for every goroutine,
\*   the call of the package it is in
VARIABLES pcCache, gor

dedupVars == <<dRaw, dResult, dDone>>
buildVars == <<bVariant, bPkg, bPtrDecl, bValDecl, bFreeDecl, bRefs, bDone>>
transVars == <<tM, tF, tTodo, tRes, tRet>>
detectVars == <<aVariant, aFile, results, aDone>>
probeVars == <<pcCache, gor>>

vars == <<genVars, dedupVars, buildVars, transVars, detectVars, probeVars>>

DedupIdle == dRaw = <<>> /\ dResult = <<>> /\ dDone = FALSE
BuildIdle ==
    /\ bVariant = "A" /\ bPkg = <<>> /\ bPtrDecl = Func(<<>>, <<>>)
    /\ bValDecl = Func(<<>>, <<>>) /\ bFreeDecl = Func(<<>>, <<>>)
    /\ bRefs = <<>> /\ bDone = FALSE
TransIdle ==
    /\ tM = <<>> /\ tF = <<>> /\ tTodo = {} /\ tRes = <<>>
    /\ tRet = [returned |-> FALSE, isNil |-> FALSE, map |-> <<>>, err |-> "nil"]

DetectIdle ==
    /\ aVariant = "A" /\ aFile = SourceFile(Str_dot, <<>>, <<>>, <<>>, <<>>)
    /\ results = <<>> /\ aDone = FALSE

\* A goroutine outside the package.
NoCall ==
    [op |-> "none", pos |-> "idle", pc |-> 0, ok |-> FALSE, name |-> <<>>, ret |-> <<>>]
Procs == 1..MaxProcs
ProbeIdle == pcCache = <<>> /\ gor = [p \in Procs |-> NoCall]

SkipName(v) == IF v = "A" THEN SkipNameA ELSE SkipNameB

\* The first test of the walk callback: not a .go file, or the skipped name.
WalkSkips(v, f) == Ext(f.name) # GoExt \/ f.name = SkipName(v)

\* The second test: the file does not parse, or declares package main.
ParseSkips(f) == ~f.ok \/ f.pkg = MainPkg

\* The files a run over tree t reads as scan input.
ScanInput(v, t) == {f \in t : ~WalkSkips(v, f)}

\* filepath.Walk visits a directory's entries in lexical order of their
\* names, descending into a subdirectory when it reaches its name.
WalkTop(f) == IF f.dir = Str_dot THEN f.name ELSE f.dir
WalkBefore(f, g) ==
    IF WalkTop(f) # WalkTop(g) THEN StrLess(WalkTop(f), WalkTop(g))
    ELSE StrLess(f.name, g.name)
WalkOrder(t) ==
    CHOOSE s \in Perms(t) : \A i, j \in 1..Len(s) : i < j => WalkBefore(s[i], s[j])

\* m with m[k] = v.
MapPut(m, k, v) == [x \in (DOMAIN m) \cup {k} |-> IF x = k THEN v ELSE m[x]]

\* The output file as the next run's walk finds it: the package clause, the
\* import block and one initialization function that invokes every callable.
GenFile(dir, pkg, data) ==
    [dir |-> dir, name |-> OutName, ok |-> TRUE, pkg |-> pkg,
     imports |-> [i \in 1..Len(data.Imports) |->
                     Import(data.Imports[i].Alias, data.Imports[i].Path)],
     decls |-> <<Func(<<87, 97, 114, 109, 85, 112>>,
                      [i \in 1..Len(data.WarmupCalls) |->
                          Call(Ident(data.WarmupCalls[i].Expr), <<>>, i)])>>,
     gen |-> TRUE]

\* os.WriteFile(outputFile, ...): the file replaces one of the same path.
WriteFile(t, g) == {f \in t : ~(f.dir = g.dir /\ f.name = g.name)} \cup {g}

\* The outcomes of generateWarmupCode after the sorts: the template,
\* format.Source or os.WriteFile fails (nothing is written, fatal), goimports
\* fails (the file is written, fatal), or all succeed.
Outcomes == {"ok", "notWritten", "goimportsFail"}

\* generateWarmupCode's two sorts.
TemplateData(pkgName, imports, calls) ==
    [PackageName |-> pkgName,
     Imports |-> SortFunc(imports, "Path"),
     WarmupCalls |-> SortFunc(calls, "Expr")]

GenInit ==
    /\ variant \in {"A", "B"}
    /\ tplPkg \in IF variant = "A" THEN {MainPkg, Pkg_warmup} ELSE {<<>>}
    /\ manifest \in Manifests
    /\ tree \in Trees
    /\ run = 0
    /\ pc = "idle"
    /\ queue = <<>>
    /\ parsed = {}
    /\ rawCalls = <<>>
    /\ importPaths = <<>>
    /\ pkgMap = <<>>
    /\ pending = {}
    /\ out = <<>>
    /\ formatted = {}
    /\ input = {}
    /\ last = [done |-> FALSE, input |-> {}, out |-> <<>>]

\* The generator before any run, over an empty tree.
GenIdle ==
    /\ variant = "A" /\ tplPkg = MainPkg /\ manifest = Manifest_ok /\ tree = {}
    /\ run = 0 /\ pc = "idle" /\ queue = <<>> /\ parsed = {} /\ rawCalls = <<>>
    /\ importPaths = <<>> /\ pkgMap = <<>> /\ pending = {} /\ out = <<>>
    /\ formatted = {} /\ input = {}
    /\ last = [done |-> FALSE, input |-> {}, out |-> <<>>]

Init == GenInit /\ DedupIdle /\ BuildIdle /\ TransIdle /\ DetectIdle /\ ProbeIdle

\* main: a run of the generator starts (the previous one has ended).
StartRun ==
    /\ pc \in {"idle", "done", "fatal"}
    /\ run < MaxRuns
    /\ run' = run + 1
    /\ pc' = "walk"
    /\ queue' = WalkOrder(tree)
    /\ parsed' = {}
    /\ rawCalls' = <<>>
    /\ importPaths' = <<>>
    /\ pkgMap' = <<>>
    /\ pending' = {}
    /\ out' = <<>>
    /\ formatted' = {}
    /\ input' = ScanInput(variant, tree)
    /\ last' = [done |-> pc = "done", input |-> input, out |-> out]
    /\ UNCHANGED <<dedupVars, buildVars, transVars, detectVars, probeVars>>
    /\ UNCHANGED <<variant, tplPkg, manifest, tree>>

\* The walk callback returns at its first test.
WalkSkip ==
    /\ pc = "walk" /\ queue # <<>>
    /\ WalkSkips(variant, Head(queue))
    /\ queue' = Tail(queue)
    /\ UNCHANGED <<dedupVars, buildVars, transVars, detectVars, probeVars>>
    /\ UNCHANGED <<variant, tplPkg, manifest, tree, run, pc, parsed, rawCalls,
                   importPaths, pkgMap, pending, out, formatted, input, last>>

\* The file is parsed and dropped: a parse error, or package main.
ParseSkip ==
    /\ pc = "walk" /\ queue # <<>>
    /\ ~WalkSkips(variant, Head(queue))
    /\ ParseSkips(Head(queue))
    /\ parsed' = parsed \cup {Head(queue)}
    /\ queue' = Tail(queue)
    /\ UNCHANGED <<dedupVars, buildVars, transVars, detectVars, probeVars>>
    /\ UNCHANGED <<variant, tplPkg, manifest, tree, run, pc, rawCalls,
                   importPaths, pkgMap, pending, out, formatted, input, last>>

\* Variant A: the walk callback of scanGoFiles with analyzeFile. (The merged
\* importMap that scanGoFiles also returns is discarded by generate and is
\* not kept here; each file is matched against its own import map.)
AnalyzeFileA ==
    /\ variant = "A"
    /\ pc = "walk" /\ queue # <<>>
    /\ LET f == Head(queue) IN
        /\ ~WalkSkips(variant, f) /\ ~ParseSkips(f)
        /\ parsed' = parsed \cup {f}
        /\ rawCalls' = rawCalls \o FileRawCalls("A", f)
        /\ importPaths' = MapPut(importPaths, f.pkg, f.dir)
    /\ queue' = Tail(queue)
    /\ UNCHANGED <<dedupVars, buildVars, transVars, detectVars, probeVars>>
    /\ UNCHANGED <<variant, tplPkg, manifest, tree, run, pc, pkgMap, pending,
                   out, formatted, input, last>>

\* Variant B: the walk callback of scanPackages.
AnalyzeFileB ==
    /\ variant = "B"
    /\ pc = "walk" /\ queue # <<>>
    /\ LET f == Head(queue)
           pkg == IF f.dir \in DOMAIN pkgMap THEN pkgMap[f.dir]
                  ELSE [PackageName |-> f.pkg, Dir |-> f.dir, RawCalls |-> <<>>,
                        ImportPaths |-> <<>>]
       IN
        /\ ~WalkSkips(variant, f) /\ ~ParseSkips(f)
        /\ parsed' = parsed \cup {f}
        /\ pkgMap' = MapPut(pkgMap, f.dir,
                            [pkg EXCEPT
                                !.ImportPaths = MapPut(@, f.pkg, f.dir),
                                !.RawCalls = @ \o FileRawCalls("B", f)])
    /\ queue' = Tail(queue)
    /\ UNCHANGED <<dedupVars, buildVars, transVars, detectVars, probeVars>>
    /\ UNCHANGED <<variant, tplPkg, manifest, tree, run, pc, rawCalls,
                   importPaths, pending, out, formatted, input, last>>

\* Variant A, generate after the walk: buildImportLines reads the manifest
\* (fatal when it has no module line), then deduplicateCalls and
\* generateWarmupCode, which has no test for an empty call list.
GenerateA ==
    /\ variant = "A"
    /\ pc = "walk" /\ queue = <<>>
    /\ LET m == GetGoModModuleName(manifest) IN
        IF m.fatal
        THEN /\ pc' = "fatal"
             /\ UNCHANGED <<tree, out, formatted>>
        ELSE \E data \in {TemplateData(<<>>,
                               BuildImportLines(importPaths, m.name, io),
                               DeduplicateCalls(rawCalls, co)) :
                               io \in Perms(DOMAIN importPaths),
                               co \in Perms(DOMAIN CallMap(rawCalls))},
                outcome \in Outcomes :
               LET written == outcome \in {"ok", "goimportsFail"}
               IN  /\ pc' = IF outcome = "ok" THEN "done" ELSE "fatal"
                   /\ tree' = IF written
                              THEN WriteFile(tree, GenFile(Str_dot, tplPkg, data))
                              ELSE tree
                   /\ out' = IF written THEN MapPut(out, Str_dot, data) ELSE out
                   /\ formatted' = IF written THEN formatted \cup {Str_dot}
                                   ELSE formatted
    /\ UNCHANGED <<dedupVars, buildVars, transVars, detectVars, probeVars>>
    /\ UNCHANGED <<variant, tplPkg, manifest, run, queue, parsed, rawCalls,
                   importPaths, pkgMap, pending, input, last>>

\* Variant B, generate after the walk: getGoModModuleName, fatal or not,
\* before the loop over the packages.
ReadManifestB ==
    /\ variant = "B"
    /\ pc = "walk" /\ queue = <<>>
    /\ IF GetGoModModuleName(manifest).fatal
       THEN pc' = "fatal" /\ pending' = pending
       ELSE pc' = "emit" /\ pending' = DOMAIN pkgMap
    /\ UNCHANGED <<dedupVars, buildVars, transVars, detectVars, probeVars>>
    /\ UNCHANGED <<variant, tplPkg, manifest, tree, run, queue, parsed, rawCalls,
                   importPaths, pkgMap, out, formatted, input, last>>

\* Variant B: one turn of generate's loop for a package without raw calls.
SkipPackageB ==
    /\ variant = "B" /\ pc = "emit"
    /\ \E d \in pending :
        /\ Len(pkgMap[d].RawCalls) = 0
        /\ pending' = pending \ {d}
    /\ UNCHANGED <<dedupVars, buildVars, transVars, detectVars, probeVars>>
    /\ UNCHANGED <<variant, tplPkg, manifest, tree, run, pc, queue, parsed,
                   rawCalls, importPaths, pkgMap, out, formatted, input, last>>

\* Variant B: one turn of generate's loop for a package with raw calls:
\* buildImportLines, deduplicateCalls, generateWarmupCode.
GeneratePackageB ==
    /\ variant = "B" /\ pc = "emit"
    /\ \E d \in pending :
        LET pkg == pkgMap[d] IN
        /\ Len(pkg.RawCalls) # 0
        /\ \E data \in {TemplateData(pkg.PackageName,
                             BuildImportLines(pkg.ImportPaths,
                                 GetGoModModuleName(manifest).name, io),
                             DeduplicateCalls(pkg.RawCalls, co)) :
                             io \in Perms(DOMAIN pkg.ImportPaths),
                             co \in Perms(DOMAIN CallMap(pkg.RawCalls))},
              outcome \in Outcomes :
             LET written == outcome \in {"ok", "goimportsFail"}
                             /\ Len(data.WarmupCalls) # 0
             IN  /\ pc' = IF outcome = "ok" \/ Len(data.WarmupCalls) = 0
                          THEN "emit" ELSE "fatal"
                 /\ tree' = IF written
                            THEN WriteFile(tree, GenFile(pkg.Dir, pkg.PackageName, data))
                            ELSE tree
                 /\ out' = IF written THEN MapPut(out, pkg.Dir, data) ELSE out
                 /\ formatted' = IF written THEN formatted \cup {pkg.Dir}
                                 ELSE formatted
        /\ pending' = pending \ {d}
    /\ UNCHANGED <<dedupVars, buildVars, transVars, detectVars, probeVars>>
    /\ UNCHANGED <<variant, tplPkg, manifest, run, queue, parsed, rawCalls,
                   importPaths, pkgMap, input, last>>

\* Variant B: generate's loop ends and main returns.
FinishB ==
    /\ variant = "B" /\ pc = "emit" /\ pending = {}
    /\ pc' = "done"
    /\ UNCHANGED <<dedupVars, buildVars, transVars, detectVars, probeVars>>
    /\ UNCHANGED <<variant, tplPkg, manifest, tree, run, queue, parsed, rawCalls,
                   importPaths, pkgMap, pending, out, formatted, input, last>>

Next ==
    \/ StartRun
    \/ WalkSkip
    \/ ParseSkip
    \/ AnalyzeFileA
    \/ AnalyzeFileB
    \/ GenerateA
    \/ ReadManifestB
    \/ SkipPackageB
    \/ GeneratePackageB
    \/ FinishB

Spec == Init /\ [][Next]_vars

\* ------------------------------------------------- what the tree contains
\* The file imports the probe's package under `alias` by Go's rules: under the
\* import's name, or, for an unnamed import, under the package's own name.
ImportsProbeAs(f, alias) ==
    \E i \in 1..Len(f.imports) :
        /\ f.imports[i].Path = ProbePath
        /\ \/ f.imports[i].Name = alias
           \/ f.imports[i].Name = <<>> /\ alias = Alias_reflecting

\* Call expression c of file f invokes the tracked probe: its callee is
\* alias.GetCurrentFunc, and the alias denotes the import of the probe's path
\* (not a local object of that name).
InvokesProbe(f, c) ==
    /\ c.Fun.kind = "Selector"
    /\ c.Fun.Sel = ProbeName
    /\ c.Fun.X.kind = "Ident"
    /\ ~c.Fun.X.local
    /\ ImportsProbeAs(f, c.Fun.X.Name)

\* The (file, line) locations, as provenance strings, of the probe calls in
\* the bodies of the declarations of f that satisfy Keep.
ProbeLocations(f, Keep(_)) ==
    {Comment(f, c) : c \in
        {c \in UNION {Range(Inspect(f.decls[i].Body)) :
                        i \in {i \in 1..Len(f.decls) : Keep(f.decls[i])}} :
            InvokesProbe(f, c)}}

AnyDecl(d) == TRUE

\* All probe call locations of the Go files of tree t that parse.
AllProbeLocations(t) ==
    UNION {ProbeLocations(f, AnyDecl) : f \in {f \in t : f.ok /\ Ext(f.name) = GoExt}}

\* The raw call sites found so far in this run, one sequence per dedup run.
RawCallSeqs ==
    IF variant = "A" THEN {rawCalls} ELSE {pkgMap[d].RawCalls : d \in DOMAIN pkgMap}
AllRawCalls == UNION {Range(r) : r \in RawCallSeqs}

\* The provenance comments of the warm-up calls written in this run.
EmittedComments ==
    UNION {UNION {Range(out[d].WarmupCalls[i].Comments) :
                     i \in 1..Len(out[d].WarmupCalls)} : d \in DOMAIN out}

\* The directories of the files a provenance comment can come from.
DeclaredIn(comment) ==
    {f.dir : f \in {f \in tree : HasPrefix(comment, RelPath(f) \o Str_colon)}}

\* ------------------------------------------------------------------ claims

\* C1 (as claimed): self-exclusion. No file the generator wrote is handed to
\* the parser as scan input by a later run, in either variant.
C1_SelfExclusion == \A f \in parsed : ~f.gen

\* C2 (as claimed): empty-result suppression. In a run over a tree with
\* source files, every output file written, and every file the formatter was
\* run on, holds at least one warm-up call: a scan that finds no matching call
\* writes nothing and formats nothing.
C2_EmptySuppression ==
    (\E f \in input : f.ok /\ f.pkg # MainPkg) =>
        \A d \in (DOMAIN out) \cup formatted :
            d \in DOMAIN out /\ Len(out[d].WarmupCalls) > 0

ScannedDecl(d) == d.HasBody /\ (variant = "B" => ~d.TypeParams)

\* The probe call locations in the files the walk does not skip, that parse
\* and are not of package main, inside declarations the variant scans.
ScannedProbeLocations ==
    UNION {ProbeLocations(f, ScannedDecl) :
              f \in {f \in input : f.ok /\ f.pkg # MainPkg}}

C5_Soundness == \A r \in AllRawCalls : r.Comment \in AllProbeLocations(tree)

\* C8 (as claimed): no warm-up call written merges call sites of functions
\* declared in different directories, and every directory a written warm-up
\* call comes from is the path of one of the import lines written with it.
C8_Unambiguous ==
    \A d \in DOMAIN out : \A i \in 1..Len(out[d].WarmupCalls) :
        LET dirs == UNION {DeclaredIn(c) : c \in Range(out[d].WarmupCalls[i].Comments)}
        IN  /\ Cardinality(dirs) <= 1
            /\ \A dir \in dirs : \E j \in 1..Len(out[d].Imports) :
                   out[d].Imports[j].Path =
                       GetGoModModuleName(manifest).name \o Str_slash \o dir

\* The manifest cannot be read or has no line beginning with "module ".
ManifestBad ==
    \/ ~manifest.readable
    \/ \A i \in 1..Len(manifest.lines) : ~HasPrefix(manifest.lines[i], ModuleKw)

\* C9: with a bad manifest a run never reaches the emission loop nor
\* completes, and writes and formats nothing.
C9_ManifestFatal ==
    ManifestBad =>
        /\ pc \notin {"emit", "done"}
        /\ out = <<>>
        /\ formatted = {}
        /\ \A f \in tree : ~f.gen

\* C9 witness: a run aborted on a bad manifest after a walk that found
\* matching calls in two packages.
C9_Witness ==
    /\ ManifestBad
    /\ pc = "fatal"
    /\ Cardinality({r \in RawCallSeqs : r # <<>>}) = 2

\* s is in ascending order of field (equal neighbours allowed).
Ascending(s, field) ==
    \A i, j \in 1..Len(s) : i < j => ~StrLess(s[j][field], s[i][field])

\* The strings of s are in ascending order and no string appears twice.
SortedSet(s) == \A i, j \in 1..Len(s) : i < j => StrLess(s[i], s[j])

\* C12 (as claimed): at emission the imports are in ascending order of path,
\* the warm-up calls in ascending order of callableRef, and the provenance
\* comments of every warm-up call are in ascending lexicographic order with
\* no comment appearing twice.
C12_SortedComments ==
    \A d \in DOMAIN out :
        /\ Ascending(out[d].Imports, "Path")
        /\ Ascending(out[d].WarmupCalls, "Expr")
        /\ \A i \in 1..Len(out[d].WarmupCalls) :
               SortedSet(out[d].WarmupCalls[i].Comments)

\* ------------------------------------------- deduplicateCalls on its own
DedupExprs == {<<70>>, <<40, 42, 84, 41, 46, 77>>}          \* "F", "(*T).M"
DedupComments == {<<120, 58, 49>>, <<120, 58, 50>>}         \* "x:1", "x:2"
RawSeqs ==
    UNION {[1..n -> [Expr : DedupExprs, Comment : DedupComments]] : n \in 0..MaxRaw}

DedupInit == GenIdle /\ BuildIdle /\ TransIdle /\ DetectIdle /\ ProbeIdle
             /\ dRaw \in RawSeqs /\ dResult = <<>> /\ dDone = FALSE

\* deduplicateCalls(dRaw), range visiting callMap in any order.
Deduplicate ==
    /\ ~dDone
    /\ \E order \in Perms(DOMAIN CallMap(dRaw)) :
           dResult' = DeduplicateCalls(dRaw, order)
    /\ dDone' = TRUE
    /\ UNCHANGED <<genVars, buildVars, transVars, detectVars, probeVars, dRaw>>

DedupNext == Deduplicate

SpecDedup == DedupInit /\ [][DedupNext]_vars

\* The provenance strings of the raw call sites with callableRef e, in order.
RECURSIVE CommentsOf(_, _)
CommentsOf(raw, e) ==
    IF Len(raw) = 0 THEN <<>>
    ELSE (IF Head(raw).Expr = e THEN <<Head(raw).Comment>> ELSE <<>>)
             \o CommentsOf(Tail(raw), e)

\* C7: deduplication is an exact group-by on callableRef. The result holds
\* one warm-up call per distinct callableRef of the input, none twice and none
\* missing, and its comments are the provenance strings of the raw call sites
\* with that callableRef, each as often as it occurs there.
C7_ExactGroupBy ==
    dDone =>
        /\ \A i, j \in 1..Len(dResult) : i # j => dResult[i].Expr # dResult[j].Expr
        /\ {dResult[i].Expr : i \in 1..Len(dResult)} = {dRaw[k].Expr : k \in 1..Len(dRaw)}
        /\ \A i \in 1..Len(dResult) :
               dResult[i].Comments = CommentsOf(dRaw, dResult[i].Expr)

\* C7 witness: three raw call sites, two of them of one callable, grouped
\* into two warm-up calls, one with two comments.
C7_Witness ==
    /\ dDone
    /\ Len(dRaw) = 3
    /\ Len(dResult) = 2
    /\ \E i \in 1..2 : Len(dResult[i].Comments) = 2

\* ------------------------------------------ buildFunctionCall on its own
BuildTypes == {<<84>>, <<85>>}        \* "T", "U"
BuildNames == {<<77>>, <<70>>}        \* "M", "F"
\* The receiver type expressions of a value and of a pointer receiver on
\* type t: T and *T, T[K] and *T[K] (a type-parameterized receiver), (T) and *(T).
RecvShapes == {"plain", "generic", "paren"}
ValueRecv(shape, t) ==
    CASE shape = "plain" -> Ident(t)
      [] shape = "generic" -> Index(Ident(t))
      [] OTHER -> Paren(Ident(t))
PointerRecv(shape, t) == Star(ValueRecv(shape, t))

BuildInit ==
    /\ GenIdle /\ DedupIdle /\ TransIdle /\ DetectIdle /\ ProbeIdle
    /\ bVariant \in {"A", "B"}
    /\ bPkg \in {Pkg_u, Pkg_v}
    /\ \E t \in BuildTypes, m \in BuildNames, shape \in RecvShapes :
           /\ bPtrDecl = Method(PointerRecv(shape, t), m, <<>>)
           /\ bValDecl = Method(ValueRecv(shape, t), m, <<>>)
    /\ bFreeDecl \in {Func(m, <<>>) : m \in BuildNames}
    /\ bRefs = <<>>
    /\ bDone = FALSE

\* buildFunctionCall applied to the three declarations.
BuildRefs ==
    /\ ~bDone
    /\ bRefs' = [ptr |-> BuildFunctionCall(bVariant, bPkg, bPtrDecl),
                 val |-> BuildFunctionCall(bVariant, bPkg, bValDecl),
                 free |-> BuildFunctionCall(bVariant, bPkg, bFreeDecl)]
    /\ bDone' = TRUE
    /\ UNCHANGED <<genVars, dedupVars, transVars, detectVars, probeVars,
                   bVariant, bPkg, bPtrDecl,
                   bValDecl, bFreeDecl>>

BuildNext == BuildRefs

SpecBuild == BuildInit /\ [][BuildNext]_vars

\* C6 (as claimed): receiver fidelity. The references built for a pointer
\* receiver method and for a value receiver method of the same name on the
\* same type differ, and both differ from the reference of a free function,
\* for every receiver type expression.
C6_ReceiverFidelity ==
    bDone => /\ bRefs.ptr # bRefs.val
             /\ bRefs.ptr # bRefs.free
             /\ bRefs.val # bRefs.free

\* -------------------------------------- TransMapByValueWithErr on its own
TransKeys == {<<96 + i>> : i \in 1..MaxKeys}      \* "a", "b", ...
TransVals == {1, 2}
TransErrs == {"nil", "error", "other error"}
\* The transforms: strconv.Itoa together with an error that may depend on
\* the value.
TransFuncs ==
    {[v \in TransVals |-> [tgt |-> Itoa(v), err |-> e[v]]] : e \in [TransVals -> TransErrs]}

TransInit ==
    /\ GenIdle /\ DedupIdle /\ BuildIdle /\ DetectIdle /\ ProbeIdle
    /\ tM \in UNION {[ks -> TransVals] : ks \in SUBSET TransKeys}
    /\ tF \in TransFuncs
    /\ tTodo = DOMAIN tM
    /\ tRes = <<>>
    /\ tRet = [returned |-> FALSE, isNil |-> FALSE, map |-> <<>>, err |-> "nil"]

\* One turn of the loop, for an entry the transform accepts: res[k] = tgt.
TransVisit ==
    /\ ~tRet.returned
    /\ \E k \in tTodo :
        /\ tF[tM[k]].err = "nil"
        /\ tRes' = MapPut(tRes, k, tF[tM[k]].tgt)
        /\ tTodo' = tTodo \ {k}
    /\ UNCHANGED <<genVars, dedupVars, buildVars, detectVars, probeVars, tM, tF, tRet>>

\* One turn of the loop, for an entry the transform rejects: return nil, err.
TransFail ==
    /\ ~tRet.returned
    /\ \E k \in tTodo :
        /\ tF[tM[k]].err # "nil"
        /\ tRet' = [returned |-> TRUE, isNil |-> TRUE, map |-> <<>>,
                    err |-> tF[tM[k]].err]
    /\ UNCHANGED <<genVars, dedupVars, buildVars, detectVars, probeVars, tM, tF, tTodo, tRes>>

\* The loop has ended: return res, nil.
TransReturn ==
    /\ ~tRet.returned
    /\ tTodo = {}
    /\ tRet' = [returned |-> TRUE, isNil |-> FALSE, map |-> tRes, err |-> "nil"]
    /\ UNCHANGED <<genVars, dedupVars, buildVars, detectVars, probeVars, tM, tF, tTodo, tRes>>

TransNext == TransVisit \/ TransFail \/ TransReturn

SpecTrans == TransInit /\ [][TransNext]_vars

\* C10 (as claimed): with a transform that returns a converted value and a
\* non-nil error for every value, the call on a non-empty map returns a non-nil
\* error and the map of the converted values, and the error returned is the
\* same whichever entry is visited first.
C10_ErrKeepsConverted ==
    (/\ tRet.returned
     /\ DOMAIN tM # {}
     /\ \A v \in TransVals : tF[v].err # "nil")
    => /\ tRet.err # "nil"
       /\ ~tRet.isNil
       /\ tRet.map = [k \in DOMAIN tM |-> tF[tM[k]].tgt]
       /\ \A k \in DOMAIN tM : tRet.err = tF[tM[k]].err

\* ------------------------------------ the detector on one function body
\* The statements a body is made of, each on a line of its own:
\*   "direct"   p.GetCurrentFunc()
\*   "wrapped"  p.GetCurrentFunc()()     the probe's result is itself invoked
\*   "arg"      g(p.GetCurrentFunc())    the probe call is an argument
\*   "other"    p.X()                    another function of the probe's package
StmtShapes == {"direct", "wrapped", "arg", "other"}
Stmt(shape, line) ==
    CASE shape = "direct" -> ProbeCall(Alias_p, line)
      [] shape = "wrapped" -> Call(ProbeCall(Alias_p, line), <<>>, line)
      [] shape = "arg" -> Call(Ident(<<103>>), <<ProbeCall(Alias_p, line)>>, line)
      [] OTHER -> Call(Selector(Ident(Alias_p), <<88>>), <<>>, line)
Bodies ==
    UNION {{[i \in 1..n |-> Stmt(shapes[i], i + 2)] : shapes \in [1..n -> StmtShapes]} :
              n \in 0..MaxStmts}
\* a/x.go:  package u; import p ".../reflecting"; one declaration, a function
\* F or a method (*T).M, with the body on lines 3, 4, ...
DetectDecls(body) == {Func(<<70>>, body), Method(Star(Ident(<<84>>)), <<77>>, body)}
DetectFiles ==
    {SourceFile(Dir_a, GoFile(120), Pkg_u, <<Import(Alias_p, ProbePath)>>, <<d>>) :
        d \in UNION {DetectDecls(body) : body \in Bodies}}

DetectInit ==
    /\ GenIdle /\ DedupIdle /\ BuildIdle /\ TransIdle /\ ProbeIdle
    /\ aVariant \in {"A", "B"}
    /\ aFile \in DetectFiles
    /\ results = <<>>
    /\ aDone = FALSE

\* The loop over node.Decls with ast.Inspect on each body.
AnalyzeFile ==
    /\ ~aDone
    /\ results' = FileRawCalls(aVariant, aFile)
    /\ aDone' = TRUE
    /\ UNCHANGED <<genVars, dedupVars, buildVars, transVars, probeVars, aVariant, aFile>>

DetectNext == AnalyzeFile

SpecDetect == DetectInit /\ [][DetectNext]_vars

\* The probe call expressions written in the body of declaration d of file
\* f, in source order, each physical call once.
ProbeCallsIn(f, d) == SelectSeq(Inspect(d.Body), LAMBDA c : InvokesProbe(f, c))

\* C11 (as claimed): one record per physical call. The body's declaration
\* yields as many raw call sites as the body has probe call expressions, in
\* the direct and in the wrapped form, and all of them carry the callableRef
\* of the enclosing declaration.
C11_OneRecordPerCall ==
    aDone =>
        LET d == aFile.decls[1] IN
        /\ Len(results) = Len(ProbeCallsIn(aFile, d))
        /\ \A i \in 1..Len(results) :
               results[i].Expr = BuildFunctionCall(aVariant, aFile.pkg, d)

\* --------------------------------------------------- package reflecting
\* strings.ReplaceAll(s, string(r), "").
RemoveRune(s, r) == SelectSeq(s, LAMBDA c : c # r)

\* RemoveFromStringRune(s, charsToRemove...): one ReplaceAll per rune.
RECURSIVE RemoveFromStringRune(_, _)
RemoveFromStringRune(s, charsToRemove) ==
    IF Len(charsToRemove) = 0 THEN s
    ELSE RemoveFromStringRune(RemoveRune(s, Head(charsToRemove)), Tail(charsToRemove))

\* legalize(s): removes '*', '(' and ')'.
Legalize(s) == RemoveFromStringRune(s, <<42, 40, 41>>)

\* getLastPathElement(s).
GetLastPathElement(s) == LastSegment(s)

\* The functions compiled into the program, each with the code addresses
\* Entry..End:  "a/b.F"  and  "a/b.(*T).M".
Fn_F == [Name |-> <<97, 47, 98, 46, 70>>, Entry |-> 16, End |-> 31]
Fn_M == [Name |-> <<97, 47, 98, 46, 40, 42, 84, 41, 46, 77>>, Entry |-> 32, End |-> 47]
SymTab == {Fn_F, Fn_M}

\* runtime.FuncForPC(pc): the function pc lies in, or nil.
NilFunc == [Name |-> <<>>, Entry |-> 0, End |-> 0]
FuncForPC(addr) ==
    IF \E fn \in SymTab : fn.Entry <= addr /\ addr <= fn.End
    THEN CHOOSE fn \in SymTab : fn.Entry <= addr /\ addr <= fn.End
    ELSE NilFunc

\* (*Func).Name(), which returns "" on a nil receiver.
FuncName(fn) == IF fn = NilFunc THEN <<>> ELSE fn.Name

\* What runtime.Caller can return: the pc of a call site inside F or inside
\* M with ok, or pc 0 without ok when the stack has no frame at that depth.
CallerResults ==
    {[pc |-> 0, ok |-> FALSE], [pc |-> 20, ok |-> TRUE], [pc |-> 36, ok |-> TRUE]}

\* reflect.ValueOf(f).Pointer() for a function value f: the entry address of
\* its code, 0 for a nil function value.
FuncPointers == {0} \cup {fn.Entry : fn \in SymTab}

ProbeInit ==
    /\ GenIdle /\ DedupIdle /\ BuildIdle /\ TransIdle /\ DetectIdle
    /\ pcCache = <<>>
    /\ gor = [p \in Procs |-> NoCall]

Returned(g, ret) == [g EXCEPT !.pos = "returned", !.ret = ret]

\* GetCurrentFunc up to its pcCache.Load: runtime.Caller(1), the return on
\* !ok, the Load with its return on a hit, FuncForPC with its return on nil.
GetCurrentFunc_Load(p) ==
    /\ gor[p].pos = "idle"
    /\ \E c \in CallerResults :
        LET g == [NoCall EXCEPT !.op = "GetCurrentFunc", !.pc = c.pc, !.ok = c.ok]
            fn == FuncForPC(c.pc)
        IN  gor' = [gor EXCEPT ![p] =
                IF ~c.ok THEN Returned(g, <<>>)
                ELSE IF c.pc \in DOMAIN pcCache THEN Returned(g, pcCache[c.pc])
                ELSE IF fn = NilFunc THEN Returned(g, <<>>)
                ELSE [g EXCEPT !.pos = "store",
                               !.name = Legalize(GetLastPathElement(FuncName(fn)))]]
    /\ UNCHANGED <<genVars, dedupVars, buildVars, transVars, detectVars, pcCache>>

\* GetCurrentFunc: pcCache.Store(pc, funcName); return funcName.
GetCurrentFunc_Store(p) ==
    /\ gor[p].op = "GetCurrentFunc" /\ gor[p].pos = "store"
    /\ pcCache' = MapPut(pcCache, gor[p].pc, gor[p].name)
    /\ gor' = [gor EXCEPT ![p] = Returned(@, gor[p].name)]
    /\ UNCHANGED <<genVars, dedupVars, buildVars, transVars, detectVars>>

\* GetCurrentFuncDepth up to its pcCache.Load: runtime.Caller(depth) with ok
\* discarded, the Load with its return on a hit.
GetCurrentFuncDepth_Load(p) ==
    /\ gor[p].pos = "idle"
    /\ \E c \in CallerResults :
        LET g == [NoCall EXCEPT !.op = "GetCurrentFuncDepth", !.pc = c.pc, !.ok = c.ok]
        IN  gor' = [gor EXCEPT ![p] =
                IF c.pc \in DOMAIN pcCache THEN Returned(g, pcCache[c.pc])
                ELSE [g EXCEPT !.pos = "loadOrStore"]]
    /\ UNCHANGED <<genVars, dedupVars, buildVars, transVars, detectVars, pcCache>>

\* GetCurrentFuncDepth: pcCache.LoadOrStore(pc, legalize(...)), atomic; the
\* value found or else the value stored is returned.
GetCurrentFuncDepth_LoadOrStore(p) ==
    /\ gor[p].op = "GetCurrentFuncDepth" /\ gor[p].pos = "loadOrStore"
    /\ LET key == gor[p].pc
           name == Legalize(GetLastPathElement(FuncName(FuncForPC(key))))
       IN  IF key \in DOMAIN pcCache
           THEN /\ pcCache' = pcCache
                /\ gor' = [gor EXCEPT ![p] = Returned(@, pcCache[key])]
           ELSE /\ pcCache' = MapPut(pcCache, key, name)
                /\ gor' = [gor EXCEPT ![p] = Returned(@, name)]
    /\ UNCHANGED <<genVars, dedupVars, buildVars, transVars, detectVars>>

\* GetFunctionName up to its pcCache.Load: FuncForPC(ptr) with its return on
\* nil, pc = fn.Entry(), the Load with its return on a hit.
GetFunctionName_Load(p) ==
    /\ gor[p].pos = "idle"
    /\ \E ptr \in FuncPointers :
        LET fn == FuncForPC(ptr)
            g == [NoCall EXCEPT !.op = "GetFunctionName", !.pc = fn.Entry,
                                !.ok = fn # NilFunc]
        IN  gor' = [gor EXCEPT ![p] =
                IF fn = NilFunc THEN Returned(g, <<>>)
                ELSE IF fn.Entry \in DOMAIN pcCache THEN Returned(g, pcCache[fn.Entry])
                ELSE [g EXCEPT !.pos = "store",
                               !.name = Legalize(GetLastPathElement(FuncName(fn)))]]
    /\ UNCHANGED <<genVars, dedupVars, buildVars, transVars, detectVars, pcCache>>

\* GetFunctionName: pcCache.Store(pc, name); return name.
GetFunctionName_Store(p) ==
    /\ gor[p].op = "GetFunctionName" /\ gor[p].pos = "store"
    /\ pcCache' = MapPut(pcCache, gor[p].pc, gor[p].name)
    /\ gor' = [gor EXCEPT ![p] = Returned(@, gor[p].name)]
    /\ UNCHANGED <<genVars, dedupVars, buildVars, transVars, detectVars>>

\* The caller goes on after the return.
ProbeReturn(p) ==
    /\ gor[p].pos = "returned"
    /\ gor' = [gor EXCEPT ![p] = NoCall]
    /\ UNCHANGED <<genVars, dedupVars, buildVars, transVars, detectVars, pcCache>>

ProbeNext ==
    \E p \in Procs :
        \/ GetCurrentFunc_Load(p)
        \/ GetCurrentFunc_Store(p)
        \/ GetCurrentFuncDepth_Load(p)
        \/ GetCurrentFuncDepth_LoadOrStore(p)
        \/ GetFunctionName_Load(p)
        \/ GetFunctionName_Store(p)
        \/ ProbeReturn(p)

SpecProbe == ProbeInit /\ [][ProbeNext]_vars

\* The name a call computes for a key without the cache.
UncachedName(key) == Legalize(GetLastPathElement(FuncName(FuncForPC(key))))

\* The lookup of the call goroutine g is in failed: there was no caller
\* frame, or the address is in no known function.
FailedLookup(g) == ~g.ok \/ FuncForPC(g.pc) = NilFunc

\* Every entry of the cache stays, with its name.
CacheOnlyGrows ==
    [][\A k \in DOMAIN pcCache : k \in DOMAIN pcCache' /\ pcCache'[k] = pcCache[k]]_vars

\* Every key of the cache is an address inside a known function.
NoEntryForFailedLookup == \A k \in DOMAIN pcCache : FuncForPC(k) # NilFunc

\* Every call that has returned has returned "" for a failed lookup and else
\* the name an uncached computation gives for its key.
ReturnsUncachedName ==
    \A p \in Procs :
        gor[p].pos = "returned" =>
            gor[p].ret = IF FailedLookup(gor[p]) THEN <<>> ELSE UncachedName(gor[p].pc)

\* C13 (as claimed): the name cache only grows and is stable under
\* concurrency. In every interleaving of the three functions no entry is
\* removed or changes its name, a failed lookup (no caller frame, unknown
\* function) stores nothing, and every call returns the name an uncached
\* computation would return for its key.
C13_CacheStable ==
    /\ CacheOnlyGrows
    /\ [](NoEntryForFailedLookup /\ ReturnsUncachedName)

====
